---- MODULE Spec2Model ----
\* Model of scripts/develop/dau_dru_dnu.py: the script runs main('spot', ...)
\* and then main('derivative', ...); each main lists and sorts the shard files
\* of its market type, streams every shard through
\* count_dau_returning_new_users_across_files and writes one JSON document.
EXTENDS Integers, Sequences, FiniteSets, TLC

\* ------------------------------------------------------------------ bounds
\* Day records read by the whole process (both market types together).
MaxDays == 3
\* Entries returned by one os.listdir call.
MaxFiles == 3

\* ------------------------------------------------------------------ inputs
IDs == {"A", "B"}
Dates == {"2024-01-15", "2024-02-01"}

\* File names are sequences of characters so that split/endswith/int act on them.
F_23_12 == <<"t", "_", "2", "3", "_", "1", "2", ".", "j", "s", "o", "n">>
F_24_2 == <<"t", "_", "2", "4", "_", "2", ".", "j", "s", "o", "n">>
F_24_10 == <<"t", "_", "2", "4", "_", "1", "0", ".", "j", "s", "o", "n">>
F_noKey == <<"x", ".", "j", "s", "o", "n">>
F_notJson == <<"t", "_", "2", "4", "_", "1", ".", "t", "x", "t">>
FileNames == {F_23_12, F_24_2, F_24_10, F_noKey, F_notJson}

\* Sequences over S of length at most n.
SeqsUpTo(S, n) == UNION {[1..k -> S] : k \in 0..n}

\* What os.listdir can return: distinct names, in any order.
Listings == {l \in SeqsUpTo(FileNames, MaxFiles) :
               \A i, j \in 1..Len(l) : i # j => l[i] # l[j]}

\* What the stream of one shard can yield: well-formed day objects, and objects
\* that lack one of the two keys the loop body reads.
\* subaccountIds is a JSON array: an identifier may occur in it more than once.
IdLists == {<<>>, <<"A">>, <<"A", "B">>, <<"B", "B">>}
GoodDays == [date : Dates, subaccountIds : IdLists]
BadDays == {[date |-> "2024-01-15"], [subaccountIds |-> <<"A">>]}

\* ------------------------------------------------------------------ strings
Digits == <<"0", "1", "2", "3", "4", "5", "6", "7", "8", "9">>
DigitVal(c) == (CHOOSE i \in 1..10 : Digits[i] = c) - 1
IsDigit(c) == \E i \in 1..10 : Digits[i] = c

RECURSIVE split(_, _)
\* str.split(sep) for a one-character separator
split(s, sep) ==
  IF s = <<>> THEN << <<>> >>
  ELSE LET r == split(Tail(s), sep) IN
       IF Head(s) = sep THEN << <<>> >> \o r
       ELSE << <<Head(s)>> \o Head(r) >> \o Tail(r)

endswith(s, suffix) ==
  /\ Len(s) >= Len(suffix)
  /\ SubSeq(s, Len(s) - Len(suffix) + 1, Len(s)) = suffix

\* int(s) raises ValueError unless s is a decimal numeral (digit strings only
\* are modelled: no sign, no surrounding blanks).
int_ok(s) == s # <<>> /\ \A i \in 1..Len(s) : IsDigit(s[i])

RECURSIVE int(_)
int(s) == IF s = <<>> THEN 0
          ELSE 10 * int(SubSeq(s, 1, Len(s) - 1)) + DigitVal(s[Len(s)])

DotJson == <<".", "j", "s", "o", "n">>

\* ------------------------------------------------------------------ main: enumeration
\* x.split('_')[-2] and x.split('_')[-1].split('.')[0]
year_field(x) == LET p == split(x, "_") IN p[Len(p) - 1]
month_field(x) == LET p == split(x, "_") IN split(p[Len(p)], ".")[1]

\* The sort key can be computed: no IndexError, no ValueError.
key_ok(x) ==
  /\ Len(split(x, "_")) >= 2
  /\ int_ok(year_field(x))
  /\ int_ok(month_field(x))

month_first_key(x) == <<int(month_field(x)), int(year_field(x))>>

\* lambda x: (int(x.split('_')[-2]), int(x.split('_')[-1].split('.')[0]))
sort_key(x) == <<int(year_field(x)), int(month_field(x))>>

\* list.sort calls the key function once per element: the outcome (no error)
\* and the key of every file name.
KeyOk == [x \in FileNames |-> key_ok(x)]
SortKey == [x \in FileNames |-> IF key_ok(x) THEN sort_key(x) ELSE <<>>]

\* Python's tuple comparison a < b on pairs of integers.
key_less(a, b) == a[1] < b[1] \/ (a[1] = b[1] /\ a[2] < b[2])

RECURSIVE insert_sorted(_, _)
\* x goes after every element whose key is not greater: the sort is stable.
insert_sorted(x, s) ==
  IF s = <<>> THEN <<x>>
  ELSE IF key_less(SortKey[x], SortKey[Head(s)]) THEN <<x>> \o s
  ELSE <<Head(s)>> \o insert_sorted(x, Tail(s))

RECURSIVE sorted_files(_)
\* json_files.sort(key=...)
sorted_files(files) ==
  IF files = <<>> THEN <<>>
  ELSE insert_sorted(files[Len(files)],
                     sorted_files(SubSeq(files, 1, Len(files) - 1)))

RECURSIVE filter_json(_)
\* [f for f in os.listdir(...) if f.endswith('.json')]
filter_json(l) ==
  IF l = <<>> THEN <<>>
  ELSE IF endswith(Head(l), DotJson) THEN <<Head(l)>> \o filter_json(Tail(l))
  ELSE filter_json(Tail(l))

\* ------------------------------------------------------------------ classification
RECURSIVE set(_)
\* set(list)
set(l) == IF l = <<>> THEN {} ELSE {Head(l)} \cup set(Tail(l))

no_returning(current, seen) == {}

\* current_subaccounts.intersection(seen_subaccounts)
returning_addresses(current, seen) == current \cap seen

dau_as_new_users(dau, returning) == dau

\* dau - len(returning_addresses)
new_users(dau, returning) == dau - returning

replace_seen(seen, current) == current

\* seen_subaccounts.update(current_subaccounts)
update(seen, current) == seen \cup current

\* The dictionary appended for one day, given the seen-set before it.
day_entry(day_data, seen) ==
  LET current_subaccounts == set(day_data.subaccountIds)
      dau == Cardinality(current_subaccounts)
      returning == Cardinality(returning_addresses(current_subaccounts, seen))
  IN [date |-> day_data.date, dau |-> dau,
      returningAddresses |-> returning,
      newUsers |-> new_users(dau, returning)]

\* ------------------------------------------------------------------ state
MarketTypes == <<"spot", "derivative">>

VARIABLES
  pc,               \* position of the script
  cat,              \* index in MarketTypes of the current main call
  json_files,       \* main's json_files
  file_idx,         \* position of the for loop over json_files (1-based)
  seen_subaccounts, \* count_...'s seen_subaccounts
  result,           \* count_...'s result
  output,           \* the output file of each market type
  last_error,       \* exception raised by the last step ("none" if none)
  processed,        \* history: shards opened by the current call, in order
  fed,              \* history: day records classified by the current call
  shard_start,      \* history: Len(fed) when the current shard was opened
  replay            \* history: while the current call has read the same day
                    \* records as the call before it (same = TRUE), the records
                    \* of that call it has not read yet

vars == <<pc, cat, json_files, file_idx, seen_subaccounts, result, output,
          last_error, processed, fed, shard_start, replay>>

market_type == MarketTypes[cat]

NoFile == [writes |-> 0, doc |-> <<>>]

RECURSIVE days_of(_)
\* The day records of a history of records fed.
days_of(f) == IF f = <<>> THEN <<>> ELSE <<Head(f).day>> \o days_of(Tail(f))

\* No call before this one, or this call has read something else.
NoReplay == [same |-> FALSE, rest |-> <<>>]

\* Day records read so far by the whole process.
days_read == Len(fed) + (IF cat = 2 THEN Len(output["spot"].doc) ELSE 0)

Init ==
  /\ pc = "main"
  /\ cat = 1
  /\ json_files = <<>>
  /\ file_idx = 1
  /\ seen_subaccounts = {}
  /\ result = <<>>
  /\ output = [m \in {"spot", "derivative"} |-> NoFile]
  /\ last_error = "none"
  /\ processed = <<>>
  /\ fed = <<>>
  /\ shard_start = 0
  /\ replay = NoReplay

\* An exception nobody catches: the traceback is printed and the script ends;
\* what was in memory is gone, the files written so far stay.
Crash(err) ==
  /\ pc' = "crashed"
  /\ last_error' = err
  /\ json_files' = <<>>
  /\ file_idx' = 1
  /\ seen_subaccounts' = {}
  /\ result' = <<>>
  /\ processed' = <<>>
  /\ fed' = <<>>
  /\ shard_start' = 0
  /\ replay' = NoReplay
  /\ UNCHANGED <<cat, output>>

\* main, line 76: the directory is listed and filtered.
ListDir ==
  /\ pc = "main"
  /\ \E l \in Listings :
       /\ json_files' = filter_json(l)
       /\ pc' = "sort"
       /\ last_error' = "none"
  /\ UNCHANGED <<cat, file_idx, seen_subaccounts, result, output, processed, fed, shard_start, replay>>

\* main, line 76: os.listdir raises because the directory does not exist.
ListDirMissing ==
  /\ pc = "main"
  /\ Crash("FileNotFoundError")

Sort_keeps_seen ==
  /\ pc = "sort"
  /\ \A i \in 1..Len(json_files) : KeyOk[json_files[i]]
  /\ json_files' = sorted_files(json_files)
  /\ file_idx' = 1
  /\ result' = <<>>
  /\ pc' = "files"
  /\ last_error' = "none"
  /\ UNCHANGED <<cat, seen_subaccounts, output, processed, fed, shard_start, replay>>

Sort_keeps_result ==
  /\ pc = "sort"
  /\ \A i \in 1..Len(json_files) : KeyOk[json_files[i]]
  /\ json_files' = sorted_files(json_files)
  /\ file_idx' = 1
  /\ seen_subaccounts' = {}
  /\ pc' = "files"
  /\ last_error' = "none"
  /\ UNCHANGED <<cat, result, output, processed, fed, shard_start, replay>>

\* main, lines 79-82, and lines 19-22 of the call: the list is sorted and the
\* aggregation starts with an empty seen-set and an empty result.
Sort ==
  /\ pc = "sort"
  /\ \A i \in 1..Len(json_files) : KeyOk[json_files[i]]
  /\ json_files' = sorted_files(json_files)
  /\ file_idx' = 1
  /\ seen_subaccounts' = {}
  /\ result' = <<>>
  /\ pc' = "files"
  /\ last_error' = "none"
  /\ UNCHANGED <<cat, output, processed, fed, shard_start, replay>>

\* main, line 79: the key of some file name cannot be computed.
SortFails ==
  /\ pc = "sort"
  /\ \E i \in 1..Len(json_files) : ~KeyOk[json_files[i]]
  /\ Crash("NamingError")

OpenShard_resets_seen ==
  /\ pc = "files"
  /\ file_idx <= Len(json_files)
  /\ processed' = Append(processed, json_files[file_idx])
  /\ shard_start' = Len(fed)
  /\ seen_subaccounts' = {}
  /\ pc' = "stream"
  /\ last_error' = "none"
  /\ UNCHANGED <<cat, json_files, file_idx, result, output, fed, replay>>

\* lines 25-32: the next file of the list is opened and its stream created.
OpenShard ==
  /\ pc = "files"
  /\ file_idx <= Len(json_files)
  /\ processed' = Append(processed, json_files[file_idx])
  /\ shard_start' = Len(fed)
  /\ pc' = "stream"
  /\ last_error' = "none"
  /\ UNCHANGED <<cat, json_files, file_idx, seen_subaccounts, result, output, fed,
                 replay>>

\* Calendar order of the dates of the model.
DateRank == [d \in Dates |-> IF d = "2024-01-15" THEN 1 ELSE 2]

NextDay_checks_order ==
  /\ pc = "stream"
  /\ days_read < MaxDays
  /\ \E day_data \in GoodDays :
       /\ fed # <<>> => DateRank[fed[Len(fed)].day.date] <= DateRank[day_data.date]
       /\ result' = Append(result, day_entry(day_data, seen_subaccounts))
       /\ seen_subaccounts' = update(seen_subaccounts, set(day_data.subaccountIds))
       /\ fed' = Append(fed, [day |-> day_data,
                              seen_before |-> seen_subaccounts])
       /\ replay' = IF replay.same /\ replay.rest # <<>> /\ Head(replay.rest) = day_data
                      THEN [same |-> TRUE, rest |-> Tail(replay.rest)]
                      ELSE NoReplay
  /\ last_error' = "none"
  /\ UNCHANGED <<pc, cat, json_files, file_idx, output, processed, shard_start>>

NextDay_merges_same_date ==
  /\ pc = "stream"
  /\ days_read < MaxDays
  /\ \E day_data \in GoodDays :
       /\ result' = IF result # <<>> /\ result[Len(result)].date = day_data.date
                      THEN [result EXCEPT ![Len(result)] =
                              day_entry(day_data, seen_subaccounts)]
                      ELSE Append(result, day_entry(day_data, seen_subaccounts))
       /\ seen_subaccounts' = update(seen_subaccounts, set(day_data.subaccountIds))
       /\ fed' = Append(fed, [day |-> day_data,
                              seen_before |-> seen_subaccounts])
       /\ replay' = IF replay.same /\ replay.rest # <<>> /\ Head(replay.rest) = day_data
                      THEN [same |-> TRUE, rest |-> Tail(replay.rest)]
                      ELSE NoReplay
  /\ last_error' = "none"
  /\ UNCHANGED <<pc, cat, json_files, file_idx, output, processed, shard_start>>

\* lines 35-57: the stream yields a day object with both keys.
NextDay ==
  /\ pc = "stream"
  /\ days_read < MaxDays
  /\ \E day_data \in GoodDays :
       /\ result' = Append(result, day_entry(day_data, seen_subaccounts))
       /\ seen_subaccounts' = update(seen_subaccounts, set(day_data.subaccountIds))
       /\ fed' = Append(fed, [day |-> day_data,
                              seen_before |-> seen_subaccounts])
       /\ replay' = IF replay.same /\ replay.rest # <<>> /\ Head(replay.rest) = day_data
                      THEN [same |-> TRUE, rest |-> Tail(replay.rest)]
                      ELSE NoReplay
  /\ last_error' = "none"
  /\ UNCHANGED <<pc, cat, json_files, file_idx, output, processed, shard_start>>

\* lines 36-37: the stream yields an object without 'date' or without
\* 'subaccountIds'; the KeyError is not an IncompleteJSONError.
BadDay ==
  /\ pc = "stream"
  /\ \E day_data \in BadDays : Crash("KeyError")

ShardTruncated_drops_shard ==
  /\ pc = "stream"
  /\ result' = SubSeq(result, 1, shard_start)
  /\ file_idx' = file_idx + 1
  /\ pc' = "files"
  /\ last_error' = "IncompleteJSONError"
  /\ UNCHANGED <<cat, json_files, seen_subaccounts, output, processed, fed, shard_start, replay>>

\* lines 58-60: the stream ends in the middle of the document.
ShardTruncated ==
  /\ pc = "stream"
  /\ file_idx' = file_idx + 1
  /\ pc' = "files"
  /\ last_error' = "IncompleteJSONError"
  /\ UNCHANGED <<cat, json_files, seen_subaccounts, result, output, processed, fed, shard_start, replay>>

EndOfShard_writes ==
  /\ pc = "stream"
  /\ file_idx' = file_idx + 1
  /\ pc' = "files"
  /\ last_error' = "none"
  /\ output' = [output EXCEPT ![market_type] =
                  [writes |-> @.writes + 1, doc |-> result]]
  /\ UNCHANGED <<cat, json_files, seen_subaccounts, result, processed, fed, shard_start, replay>>

\* line 35: the stream is exhausted, the for loop takes the next file.
EndOfShard ==
  /\ pc = "stream"
  /\ file_idx' = file_idx + 1
  /\ pc' = "files"
  /\ last_error' = "none"
  /\ UNCHANGED <<cat, json_files, seen_subaccounts, result, output, processed, fed, shard_start, replay>>

\* lines 25, 62: the list is exhausted, the result is returned to main.
ReturnResult ==
  /\ pc = "files"
  /\ file_idx > Len(json_files)
  /\ pc' = "sink"
  /\ last_error' = "none"
  /\ UNCHANGED <<cat, json_files, file_idx, seen_subaccounts, result, output,
                 processed, fed, shard_start, replay>>

WriteOutput_skips_empty ==
  /\ pc = "sink"
  /\ output' = IF result = <<>> THEN output
               ELSE [output EXCEPT ![market_type] =
                       [writes |-> @.writes + 1, doc |-> result]]
  /\ pc' = "returned"
  /\ last_error' = "none"
  /\ UNCHANGED <<cat, json_files, file_idx, seen_subaccounts, result, processed, fed, shard_start, replay>>

\* main, lines 85-93: the whole list is written as one document.
WriteOutput ==
  /\ pc = "sink"
  /\ output' = [output EXCEPT ![market_type] =
                  [writes |-> @.writes + 1, doc |-> result]]
  /\ pc' = "returned"
  /\ last_error' = "none"
  /\ UNCHANGED <<cat, json_files, file_idx, seen_subaccounts, result, processed, fed, shard_start, replay>>

\* main, line 90: the output file cannot be opened for writing.
WriteFailsAtOpen ==
  /\ pc = "sink"
  /\ Crash("OSError")

\* main, line 91: the file was opened (created or emptied) and json.dump fails
\* after k entries; what was written stays in the file.
WriteFailsMidway ==
  /\ pc = "sink"
  /\ \E k \in 0..Len(result) :
       output' = [output EXCEPT ![market_type] =
                    [writes |-> @.writes + 1, doc |-> SubSeq(result, 1, k)]]
  /\ pc' = "crashed"
  /\ last_error' = "OSError"
  /\ json_files' = <<>>
  /\ file_idx' = 1
  /\ seen_subaccounts' = {}
  /\ result' = <<>>
  /\ processed' = <<>>
  /\ fed' = <<>>
  /\ shard_start' = 0
  /\ replay' = NoReplay
  /\ cat' = cat

\* lines 96-97: main has returned (its frame, json_files included, is gone);
\* the next market type is started, or the script ends.
NextMain ==
  /\ pc = "returned"
  /\ IF cat < Len(MarketTypes)
       THEN /\ cat' = cat + 1
            /\ pc' = "main"
            /\ replay' = [same |-> TRUE, rest |-> days_of(fed)]
       ELSE /\ cat' = cat
            /\ pc' = "exit"
            /\ replay' = NoReplay
  /\ json_files' = <<>>
  /\ file_idx' = 1
  /\ processed' = <<>>
  /\ fed' = <<>>
  /\ shard_start' = 0
  /\ last_error' = "none"
  /\ UNCHANGED <<seen_subaccounts, result, output>>

Next ==
  \/ ListDir
  \/ ListDirMissing
  \/ Sort
  \/ SortFails
  \/ OpenShard
  \/ NextDay
  \/ BadDay
  \/ ShardTruncated
  \/ EndOfShard
  \/ ReturnResult
  \/ WriteOutput
  \/ WriteFailsAtOpen
  \/ WriteFailsMidway
  \/ NextMain

Spec == Init /\ [][Next]_vars

\* ------------------------------------------------------------------ properties
TypeOK ==
  /\ pc \in {"main", "sort", "files", "stream", "sink", "returned", "exit", "crashed"}
  /\ cat \in 1..Len(MarketTypes)
  /\ seen_subaccounts \subseteq IDs
  /\ Len(result) <= MaxDays

\* The positions at which a call of count_... is in progress or has returned
\* to main, its locals and result still in hand.
InRun == pc \in {"files", "stream", "sink", "returned"}

\* The distinct identifiers of a list, and of the i-th record fed.
Distinct(l) == {l[k] : k \in 1..Len(l)}
IdsOf(i) == Distinct(fed[i].day.subaccountIds)
\* The identifiers of all records fed before the i-th, whatever their shard.
IdsBefore(i) == UNION {IdsOf(j) : j \in 1..(i - 1)}

\* C1: every appended entry has dau = number of distinct identifiers of its
\* record and returning = number of them that occur in the union of all records
\* consumed earlier in the run, across shards; the first has returning = 0 and
\* newUsers = dau.
C1_MetricsAgainstAllEarlierDays ==
  InRun =>
    /\ Len(result) = Len(fed)
    /\ \A i \in 1..Len(fed) :
         /\ result[i].dau = Cardinality(IdsOf(i))
         /\ result[i].returningAddresses = Cardinality(IdsOf(i) \cap IdsBefore(i))
    /\ Len(result) >= 1 =>
         /\ result[1].returningAddresses = 0
         /\ result[1].newUsers = result[1].dau

\* A day of the second shard has one identifier returning from the first shard
\* and one new identifier.
C1_Witness ==
  /\ pc = "stream"
  /\ file_idx = 2
  /\ shard_start >= 1
  /\ Len(fed) > shard_start
  /\ result[Len(result)] = [date |-> "2024-02-01", dau |-> 2,
                            returningAddresses |-> 1, newUsers |-> 1]

MetricsOK(e) ==
  /\ e.dau = e.returningAddresses + e.newUsers
  /\ 0 <= e.returningAddresses
  /\ e.returningAddresses <= e.dau

\* C2: every entry appended, and every entry written, has dau = returning +
\* newUsers and 0 <= returning <= dau, and its returning count is at most the
\* size of the seen-set as it was just before the day was classified.
C2_EntryInvariant ==
  /\ \A i \in 1..Len(result) : MetricsOK(result[i])
  /\ \A m \in DOMAIN output : \A i \in 1..Len(output[m].doc) : MetricsOK(output[m].doc[i])
  /\ InRun => \A i \in 1..Len(fed) :
       i <= Len(result) =>
         result[i].returningAddresses <= Cardinality(fed[i].seen_before)

\* An entry with returning users, appended in a shard that then failed.
C2_Witness ==
  /\ last_error = "IncompleteJSONError"
  /\ shard_start < Len(result)
  /\ result[Len(result)].returningAddresses >= 1
  /\ result[Len(result)].newUsers >= 1

\* C3: when a shard's stream ends unexpectedly, nothing appended so far is
\* retracted (this shard's entries and the earlier shards' alike), the seen-set
\* keeps their identifiers, nothing is written, the loop moves to the next file
\* of the list instead of aborting, and the next file, if any, can be opened;
\* what the call returns still holds one entry per record fed.
C3_TruncationKeepsProgress ==
  /\ [][last_error' = "IncompleteJSONError" =>
          /\ pc = "stream"
          /\ pc' = "files"
          /\ file_idx' = file_idx + 1
          /\ result' = result
          /\ seen_subaccounts' = seen_subaccounts
          /\ fed' = fed
          /\ json_files' = json_files
          /\ output' = output]_vars
  /\ [](last_error = "IncompleteJSONError" /\ file_idx <= Len(json_files)
          => ENABLED OpenShard)
  /\ [](pc \in {"sink", "returned"} =>
          /\ Len(result) = Len(fed)
          /\ \A i \in 1..Len(fed) : result[i].date = fed[i].day.date
          /\ \A i \in 1..Len(fed) : IdsOf(i) \subseteq seen_subaccounts)

\* The second of three shards was cut after at least one record, the first
\* shard had contributed a record too, and a third shard is still to come.
C3_Witness ==
  /\ last_error = "IncompleteJSONError"
  /\ pc = "files"
  /\ file_idx = 3
  /\ Len(json_files) = 3
  /\ shard_start >= 1
  /\ Len(fed) > shard_start
  /\ Len(result) = Len(fed)
  /\ seen_subaccounts # {}

\* C4 (as claimed): a day object without 'date' or without 'subaccountIds' does
\* not end the script; it is handled like a truncation.
C4_BadRecordDoesNotAbort ==
  last_error = "KeyError" => pc # "crashed"

\* C5 (as claimed): whatever happens to the 'spot' run, the script does not end
\* before main('derivative', ...) has been started.
C5_DerivativeAlwaysStarted ==
  pc \in {"crashed", "exit"} => market_type = "derivative"

\* C6: within one call the seen-set starts empty and every step (a day, the end
\* of a shard, the next shard, a truncation) leaves it a superset of what it was.
C6_SeenSetOnlyGrows ==
  /\ [][pc = "sort" /\ pc' = "files" => seen_subaccounts' = {}]_vars
  /\ [][InRun /\ pc' # "crashed" /\ pc' # "main" /\ pc' # "exit" =>
          seen_subaccounts \subseteq seen_subaccounts']_vars

\* A later shard is being read and the seen-set holds both identifiers, one of
\* them from an earlier shard.
C6_Witness ==
  /\ pc = "stream"
  /\ file_idx >= 2
  /\ shard_start >= 1
  /\ Len(fed) > shard_start
  /\ fed[Len(fed)].seen_before # {}
  /\ fed[Len(fed)].seen_before # seen_subaccounts
  /\ seen_subaccounts = IDs

\* C7: the output file of a market type is written at most once, and only when
\* every file of the sorted list has been opened; while the call is still
\* enumerating or aggregating, and when the script dies, the file of the market
\* type in hand has not been touched.
C7_OutputOnlyAtEnd ==
  /\ \A m \in DOMAIN output : output[m].writes <= 1
  /\ pc \in {"main", "sort", "files", "stream", "sink"} =>
       output[market_type] = NoFile
  /\ pc = "crashed" /\ last_error # "OSError" => output[market_type] = NoFile
  /\ pc = "returned" =>
       /\ output[market_type] = [writes |-> 1, doc |-> result]
       /\ processed = json_files
       /\ file_idx = Len(json_files) + 1

\* The 'derivative' document was written after two shards had been opened,
\* 'spot' having written its own before.
C7_Witness ==
  /\ pc = "returned"
  /\ Len(processed) = 2
  /\ Len(output[market_type].doc) >= 2
  /\ output[market_type].writes = 1
  /\ market_type = "derivative"
  /\ output["spot"].writes = 1

\* The numeric (year, month) of a file name, read off the name's digits.
YearOf(x) == int(year_field(x))
MonthOf(x) == int(month_field(x))
NotAfter(x, y) ==
  \/ YearOf(x) < YearOf(y)
  \/ YearOf(x) = YearOf(y) /\ MonthOf(x) <= MonthOf(y)
Ascending(files) ==
  \A i, j \in 1..Len(files) : i < j => NotAfter(files[i], files[j])
SameFiles(a, b) ==
  /\ Len(a) = Len(b)
  /\ \A x \in FileNames :
       Cardinality({i \in 1..Len(a) : a[i] = x}) = Cardinality({i \in 1..Len(b) : b[i] = x})

\* C8: whatever order the listing had, the list the loop walks holds the same
\* files in ascending numeric (year, month) order, and the shards opened so far
\* are exactly its first files, in that order, one at a time, each once.
C8_ShardsInChronologicalOrder ==
  /\ [][pc = "sort" /\ pc' = "files" =>
          SameFiles(json_files, json_files') /\ Ascending(json_files')]_vars
  /\ [][InRun /\ pc' \in {"files", "stream", "sink", "returned"} =>
          json_files' = json_files]_vars
  /\ [](InRun =>
          /\ processed = SubSeq(json_files, 1, Len(processed))
          /\ Len(processed) = (IF pc = "stream" THEN file_idx ELSE file_idx - 1))
  /\ [](pc \in {"sink", "returned"} => processed = json_files)

\* Three shards listed latest first were all opened, earliest first.
C8_Witness ==
  /\ pc = "sink"
  /\ processed = <<F_23_12, F_24_2, F_24_10>>

\* C9: a directory without any .json file is no error: nothing can fail before
\* the sink, and the document written is the empty list.
C9_EmptyCategory ==
  /\ [][json_files = <<>> /\ pc \in {"sort", "files"} =>
          pc' \in {"files", "sink"} /\ json_files' = <<>>]_vars
  /\ [](json_files = <<>> /\ pc = "sort" => ENABLED Sort)
  /\ [](json_files = <<>> /\ pc = "files" => ENABLED ReturnResult)
  /\ [](json_files = <<>> /\ pc = "sink" => ENABLED WriteOutput)
  /\ [](json_files = <<>> /\ pc = "returned" =>
          output[market_type] = [writes |-> 1, doc |-> <<>>])

C9_Witness ==
  /\ pc = "returned"
  /\ json_files = <<>>
  /\ market_type = "spot"
  /\ output["spot"] = [writes |-> 1, doc |-> <<>>]

RECURSIVE MetricsFrom(_, _)
\* The entries a call yields for the records days, starting from the seen-set
\* seen.
MetricsFrom(days, seen) ==
  IF days = <<>> THEN <<>>
  ELSE LET cur == Distinct(Head(days).subaccountIds)
           ret == Cardinality(cur \cap seen)
       IN <<[date |-> Head(days).date, dau |-> Cardinality(cur),
             returningAddresses |-> ret, newUsers |-> Cardinality(cur) - ret]>>
          \o MetricsFrom(Tail(days), seen \cup cur)

DaysFed == [i \in 1..Len(fed) |-> fed[i].day]

\* C10: the entries of a market type are those its own records yield from an
\* empty seen-set, and its seen-set holds identifiers of its own records only,
\* whether or not another market type was processed before it.
C10_SeenSetPerCategory ==
  InRun =>
    /\ result = MetricsFrom(DaysFed, {})
    /\ seen_subaccounts = IdsBefore(Len(fed) + 1)
    /\ pc = "returned" => output[market_type].doc = MetricsFrom(DaysFed, {})

\* 'spot' has seen both identifiers; the first day of 'derivative' still counts
\* its identifiers as new.
C10_Witness ==
  /\ market_type = "derivative"
  /\ pc = "stream"
  /\ Len(output["spot"].doc) >= 1
  /\ output["spot"].doc[1].dau = Cardinality(IDs)
  /\ Len(result) = 1
  /\ result[1].dau >= 1
  /\ result[1].returningAddresses = 0
  /\ result[1].newUsers = result[1].dau

\* C11: a call that is given the same day records as the call before it (the
\* same shards, cut at the same places or not) appends the same entries, one
\* for one, and writes the same document; nothing but the records fed decides
\* the result.
C11_SameInputSameResult ==
  [](market_type = "derivative" /\ InRun /\ replay.same =>
       /\ Len(result) + Len(replay.rest) = Len(output["spot"].doc)
       /\ result = SubSeq(output["spot"].doc, 1, Len(result))
       /\ pc = "returned" /\ replay.rest = <<>> =>
            output["derivative"].doc = output["spot"].doc)

\* 'derivative' has read exactly what 'spot' had read, a day with identifiers
\* among it, and has written its document.
C11_Witness ==
  /\ market_type = "derivative"
  /\ pc = "returned"
  /\ replay = [same |-> TRUE, rest |-> <<>>]
  /\ Len(result) >= 1
  /\ result[1].dau >= 1
  /\ output["derivative"].doc = output["spot"].doc

\* C12: within a call every step leaves the entries already appended as they
\* are and appends at most one; the list holds one entry per record fed, in the
\* order fed, the i-th with the date of the i-th record, so two records with
\* the same date give two entries; a shard error changes nothing in it.
C12_ResultAppendOnly ==
  /\ [][InRun /\ pc' \in {"files", "stream", "sink", "returned"} =>
          /\ Len(result') \in {Len(result), Len(result) + 1}
          /\ SubSeq(result', 1, Len(result)) = result
          /\ Len(result') - Len(result) = Len(fed') - Len(fed)]_vars
  /\ [](InRun =>
          /\ Len(result) = Len(fed)
          /\ \A i \in 1..Len(fed) : result[i].date = fed[i].day.date)

\* Two records with the same date, from two shards, the second of which was
\* then cut: two entries.
C12_Witness ==
  /\ pc = "files"
  /\ last_error = "IncompleteJSONError"
  /\ shard_start = 1
  /\ Len(fed) = 2
  /\ fed[1].day.date = fed[2].day.date
  /\ Len(result) = 2
  /\ result[1].date = result[2].date

\* C13: no date order is checked. Whatever the dates of the records before it,
\* a well-formed day of any date that the stream yields is classified at once,
\* without error, as the next entry; no record is skipped or moved, and each is
\* classified against the identifiers of exactly the records fed before it, so
\* of two records sharing an identifier the one fed first counts it as new.
C13_NoDateOrderCheck ==
  /\ [](pc = "stream" /\ days_read < MaxDays =>
          \A d \in Dates :
            ENABLED (/\ NextDay
                     /\ pc' = "stream"
                     /\ Len(fed') = Len(fed) + 1
                     /\ fed'[Len(fed')].day.date = d
                     /\ Len(result') = Len(result) + 1
                     /\ result'[Len(result')].date = d))
  /\ [](InRun =>
          \A i \in 1..Len(fed) :
            /\ i <= Len(result)
            /\ result[i].date = fed[i].day.date
            /\ fed[i].seen_before = IdsBefore(i)
            /\ result[i].newUsers = Cardinality(IdsOf(i) \ IdsBefore(i)))

\* A February day was fed before a January day with the same identifier: the
\* February entry counts it as new, the January entry as returning.
C13_Witness ==
  /\ InRun
  /\ Len(fed) = 2
  /\ DateRank[fed[1].day.date] > DateRank[fed[2].day.date]
  /\ IdsOf(1) = {"A"}
  /\ IdsOf(2) = {"A"}
  /\ result[1].date = "2024-02-01"
  /\ result[1].newUsers = 1
  /\ result[2].date = "2024-01-15"
  /\ result[2].newUsers = 0
  /\ result[2].returningAddresses = 1

RECURSIVE SumNewUsers(_)
SumNewUsers(entries) ==
  IF entries = <<>> THEN 0
  ELSE Head(entries).newUsers + SumNewUsers(Tail(entries))

\* The records fed that count x among their new users.
CountedNewAt(x) == {i \in 1..Len(fed) : x \in IdsOf(i) \ fed[i].seen_before}

\* C14: at every point of a call the newUsers of the entries appended so far
\* add up to the size of the seen-set, and every identifier of the seen-set was
\* counted as new exactly once, by the first record fed that holds it; shards
\* abandoned after a truncation make no difference.
C14_NewUsersSumIsSeenSize ==
  [](InRun =>
       /\ SumNewUsers(result) = Cardinality(seen_subaccounts)
       /\ \A x \in IDs :
            IF x \in seen_subaccounts
              THEN /\ Cardinality(CountedNewAt(x)) = 1
                   /\ \A i \in CountedNewAt(x) : x \notin IdsBefore(i)
              ELSE CountedNewAt(x) = {}
       /\ \A i \in 1..Len(fed) :
            i <= Len(result) =>
              result[i].newUsers = Cardinality(IdsOf(i) \ fed[i].seen_before))

\* Both identifiers are seen, over two shards of which the second was cut
\* after a day with one returning and one new identifier: the sum is 2.
C14_Witness ==
  /\ pc = "files"
  /\ last_error = "IncompleteJSONError"
  /\ shard_start = 1
  /\ Len(result) = 2
  /\ result[1].newUsers = 1
  /\ result[2].newUsers = 1
  /\ result[2].returningAddresses = 1
  /\ seen_subaccounts = IDs
====
